---- MODULE Spec2Model ----
(***************************************************************************)
(* The semantic-release Slack notifier of test-monorepo/packages/          *)
(* semantic-release-slack-plugin.  The repository holds several variants   *)
(* of the plugin; the ones modelled here are                               *)
(*   "js"  index.js        (guards and try/catch around the chat calls)    *)
(*   "ts"  src/index.ts    (no guards, attachment format, reversed links)  *)
(*   "p2"  the attachment variant written in JavaScript                    *)
(*   "p1"  the block variant that reports release types                    *)
(*   "p3"  the block variant with one message builder per status           *)
(* impl says which of them is the module loaded in the process.  The       *)
(* release orchestrator and the chat service are the environment.          *)
(*   Spec, SpecJs   release runs of a process, one after the other         *)
(*   SpecPlugin     the same under a plugin configuration with channelId   *)
(*   SpecTypes      one release run of "p1" or "p3"                        *)
(*   SpecBuild      the message builders of "js", "ts" and "p2" alone      *)
(***************************************************************************)
EXTENDS Integers, Sequences, FiniteSets, TLC

VARIABLES
    impl,          \* which variant of the plugin the process has loaded
    slackClient,   \* module state: the WebClient, or UNDEF
    messageTs,     \* module state: the handle of the posted message, or UNDEF
    channelId,     \* module state: the destination channel, or UNDEF
    messages,      \* chat service: the messages created so far, in order
    run,           \* orchestrator: number of the current release run
    phase,         \* orchestrator: "start", "prepared" or "resolved"
    env,           \* the environment of the process (context.env)
    pluginConfig,  \* the plugin's entry in the release configuration
    options,       \* the release configuration (context.options)
    prep,          \* how prepare ended in the current run
    posted,        \* the [channel, ts] the current run's post obtained
    tsWrites,      \* number of assignments to messageTs in the current run
    hook,          \* the hook called last
    ctx,           \* the context the orchestrator passed to that call
    releasesOut,   \* context.releases as that call left it
    result,        \* "returned" or "threw": how that call ended
    log,           \* the log entries that call recorded
    sent,          \* the chat-service requests that call issued
    built,         \* what a direct call of a message builder returned
    others         \* the other release runs begun in this process

vars == <<impl, slackClient, messageTs, channelId, messages, run, phase, env,
          prep, posted, tsWrites, hook, ctx, releasesOut, result, log, sent,
          built, pluginConfig, options, others>>

session == <<slackClient, messageTs, channelId>>

-----------------------------------------------------------------------------
(* Bounds *)

MaxRuns == 2
MaxReleases == 2
MaxPlugins == 1

-----------------------------------------------------------------------------
(* Values *)

\* JavaScript's undefined: an unset module variable, an absent property.
UNDEF == "undefined"

Impls == {"js", "ts", "p2"}

Token == "xoxb-token"
Tokens == {UNDEF, Token}
Channels == {UNDEF, "C1", "C2"}

\* The CI identifiers GITHUB_SERVER_URL, GITHUB_REPOSITORY, GITHUB_RUN_ID.
CiVars == {"GITHUB_SERVER_URL", "GITHUB_REPOSITORY", "GITHUB_RUN_ID"}
CiSets == {{}, {"GITHUB_SERVER_URL", "GITHUB_REPOSITORY"}, CiVars}

Envs == [token : Tokens, channel : Channels, ci : CiSets]

\* pluginConfig.releaseTypes: unset, or a list of release types.
NoTypes == [set |-> FALSE, types |-> <<>>]
Types(list) == [set |-> TRUE, types |-> list]
ReleaseTypeLists == {<<>>, <<"npm">>, <<"s3">>, <<"npm", "s3">>}

\* pluginConfig, the first argument of every hook: with or without the
\* documented channelId, with or without releaseTypes.
PluginChannel == "C-plugin"
NoPluginConfig == [channelId |-> UNDEF, releaseTypes |-> NoTypes]
PluginConfigs == {NoPluginConfig, [NoPluginConfig EXCEPT !.channelId = PluginChannel]}
TypeConfigs ==
    {NoPluginConfig}
    \cup {[NoPluginConfig EXCEPT !.releaseTypes = Types(list)] : list \in ReleaseTypeLists}

\* A publishCmd: absent, a string (given as the pieces it is made of), or a
\* value that is not a string.
ExecName == "@semantic-release/exec"
S3Script == "publish-to-s3.js"
NoCmd == [type |-> "undefined", parts |-> <<>>]
StringCmd(parts) == [type |-> "string", parts |-> parts]
ArrayCmd(parts) == [type |-> "object", parts |-> parts]

\* An entry of options.plugins: a plugin name, or an array [name, config].
PluginName(name) ==
    [isArray |-> FALSE, length |-> 0, pluginName |-> name, publishCmd |-> NoCmd]
PluginArray(length, name, publishCmd) ==
    [isArray |-> TRUE, length |-> length, pluginName |-> name, publishCmd |-> publishCmd]
Plugins ==
    {PluginName("@semantic-release/npm"),
     PluginArray(1, ExecName, NoCmd),
     PluginArray(2, "@semantic-release/npm", StringCmd(<<"node ", S3Script>>)),
     PluginArray(2, ExecName, NoCmd),
     PluginArray(2, ExecName, ArrayCmd(<<"node", S3Script>>)),
     PluginArray(2, ExecName, StringCmd(<<"echo ", "done">>)),
     PluginArray(2, ExecName, StringCmd(<<"node ", "scripts/", S3Script, " --dry-run">>))}

\* options.executorContext.projectName, the package being released.
PackageName == "pkg-a"

\* context.nextRelease: absent, present without a version, or with one.
Version == "1.2.0"
NextReleases == {[present |-> FALSE, version |-> UNDEF],
                 [present |-> TRUE, version |-> UNDEF],
                 [present |-> TRUE, version |-> Version]}

\* What `git log -1 --pretty=%B` gives: the command fails, or a commit
\* message that ends with "(#<digits>)" or does not.
GitFails == "git-fails"
CommitWithPr == "feat: add thing (#12)"
CommitNoPr == "chore: release"
Commits == {GitFails, CommitWithPr, CommitNoPr}

\* Release artifacts, each {name, url} with either possibly absent.
NpmName == "npm package (@latest dist-tag)"
CdnName == "cdn"
NpmUrl == "https://npm/pkg-a/1.2.0"
CdnUrl == "https://cdn/pkg-a/1.2.0"
Releases == {[name |-> NpmName, url |-> NpmUrl],
             [name |-> CdnName, url |-> CdnUrl],
             [name |-> UNDEF, url |-> CdnUrl],
             [name |-> CdnName, url |-> UNDEF]}

RECURSIVE SeqsUpTo(_, _)
SeqsUpTo(S, n) ==
    IF n = 0 THEN {<<>>}
    ELSE LET shorter == SeqsUpTo(S, n - 1)
         IN shorter \cup {Append(s, x) : s \in {t \in shorter : Len(t) = n - 1}, x \in S}

ReleaseLists == SeqsUpTo(Releases, MaxReleases)

\* The handle the chat service gives to the n-th message it creates.
HandlePool == <<"1700000001.000100", "1700000002.000200", "1700000003.000300",
                "1700000004.000400", "1700000005.000500">>
Handle(n) == HandlePool[n]

NoPost == [channel |-> UNDEF, ts |-> UNDEF]

\* context.options: without plugins, or with a list of them.
NoOptions == [plugins |-> [present |-> FALSE, list |-> <<>>]]
PluginLists == SeqsUpTo(Plugins, MaxPlugins)
OptionsSet ==
    {NoOptions} \cup {[plugins |-> [present |-> TRUE, list |-> list]] : list \in PluginLists}

Reverse(s) == [i \in 1..Len(s) |-> s[Len(s) + 1 - i]]

-----------------------------------------------------------------------------
(* The orchestrator's context *)

Ctx(nextRelease, commit, releases) ==
    [env |-> env, projectName |-> PackageName, nextRelease |-> nextRelease,
     commit |-> commit, releases |-> releases]

NoCtx == [env |-> [token |-> UNDEF, channel |-> UNDEF, ci |-> {}],
          projectName |-> PackageName,
          nextRelease |-> [present |-> FALSE, version |-> UNDEF],
          commit |-> UNDEF, releases |-> <<>>]

\* nextRelease?.version
OptVersion(c) == IF c.nextRelease.present THEN c.nextRelease.version ELSE UNDEF

-----------------------------------------------------------------------------
(* Log entries and chat-service requests *)

Info(msg) == [via |-> "logger.log", msg |-> msg]
Error(msg) == [via |-> "logger.error", msg |-> msg]
Console(msg) == [via |-> "console.log", msg |-> msg]

\* A request to the chat service: msg is its structured content (blocks or
\* attachment), text its `text` parameter when it has one; Answered adds the
\* service's answer to it.
PostCall(client, channel, msg) ==
    [op |-> "postMessage", client |-> client, channel |-> channel, ts |-> UNDEF,
     msg |-> msg, text |-> UNDEF, outcome |-> UNDEF]
UpdateCall(client, channel, ts, msg) ==
    [op |-> "update", client |-> client, channel |-> channel, ts |-> ts,
     msg |-> msg, text |-> UNDEF, outcome |-> UNDEF]
Answered(call, outcome) == [call EXCEPT !.outcome = outcome]

\* new WebClient(token): the constructor accepts an absent token.
WebClient(token) == IF token = UNDEF THEN "WebClient()" ELSE "WebClient(token)"

\* What the chat service may answer to a post: "ok" (the message is created
\* and its handle returned), "nots" (created, the response carries no ts),
\* "reject" (the call throws).  Without token or channel it rejects.
PostOutcomes(client, channel) ==
    IF client = WebClient(UNDEF) \/ channel = UNDEF THEN {"reject"}
    ELSE {"ok", "nots", "reject"}

\* What it may answer to an update.
UpdateOutcomes(client, channel, ts) ==
    IF client = WebClient(UNDEF) \/ channel = UNDEF \/ ts = UNDEF THEN {"reject"}
    ELSE {"ok", "reject"}

Observe(h, c, rel, res, lg, snt) ==
    /\ hook' = h
    /\ ctx' = c
    /\ releasesOut' = rel
    /\ result' = res
    /\ log' = lg
    /\ sent' = snt

-----------------------------------------------------------------------------
(* index.js *)

WorkflowUrl == "https://github.com/o/r/actions/runs/1"

\* Mutant: release.url || release.name
HasUrlOrName(release) == release.url # UNDEF \/ release.name # UNDEF

\* release.url && release.name
HasUrlAndName(release) == release.url # UNDEF /\ release.name # UNDEF

RECURSIVE forEachReleaseLink(_)
forEachReleaseLink(releases) ==
    IF releases = <<>> THEN <<>>
    ELSE LET release == Head(releases)
         IN (IF HasUrlAndName(release)
             THEN <<[url |-> release.url, text |-> release.name]>>
             ELSE <<>>) \o forEachReleaseLink(Tail(releases))

statusTextJs(status) ==
    CASE status = "pending" -> "In Progress"
      [] status = "success" -> "Success"
      [] status = "failure" -> "Failed"
      [] OTHER -> "Unknown"

createMessageBlocks(c, status, version) ==
    LET workflowUrl == IF CiVars \subseteq c.env.ci THEN WorkflowUrl ELSE ""
        artifacts == IF status = "success" /\ version # UNDEF
                     THEN forEachReleaseLink(c.releases)
                     ELSE <<>>
        releaseLinks == artifacts \o
                        (IF workflowUrl # ""
                         THEN <<[url |-> workflowUrl, text |-> "Workflow Run"]>>
                         ELSE <<>>)
    IN [status |-> status,
        packageName |-> c.projectName,
        statusText |-> statusTextJs(status),
        version |-> version,
        headline |-> <<"*" \o c.projectName \o "* ",
                       IF version # UNDEF THEN "v" \o version ELSE "",
                       "">>,
        links |-> releaseLinks,
        linksSection |-> Len(releaseLinks) > 0,
        pr |-> <<>>]

createStartMessageBlocks(c) == createMessageBlocks(c, "pending", UNDEF)
createSuccessMessageBlocks(c) == createMessageBlocks(c, "success", OptVersion(c))
createFailureMessageBlocks(c) == createMessageBlocks(c, "failure", UNDEF)

\* !slackClient || !messageTs
NotReadyJs == slackClient = UNDEF \/ messageTs = UNDEF

\* slackClient.chat.postMessage({channel: channelId, blocks, ...}) of prepare
postMessageJs(client, channel, blocks) ==
    [PostCall(client, channel, blocks) EXCEPT
        !.text = "Release process started for " \o blocks.packageName]

\* Mutant: success calls chat.postMessage where it should call chat.update.
updateSuccessJs_Posts(blocks) == PostCall(slackClient, channelId, blocks)

\* slackClient.chat.update({channel: channelId, ts: messageTs, blocks, ...})
\* with text `Release successful for ${packageName} v${nextRelease.version}`
updateSuccessJs(blocks) ==
    [UpdateCall(slackClient, channelId, messageTs, blocks) EXCEPT
        !.text = "Release successful for " \o blocks.packageName \o " v"
                 \o blocks.version]
\* Mutant: fail posts the message anew where it should update it.
updateFailJs_Reposts(blocks) == PostCall(slackClient, channelId, blocks)

\* with text `Release failed for ${packageName}`
updateFailJs(blocks) ==
    [UpdateCall(slackClient, channelId, messageTs, blocks) EXCEPT
        !.text = "Release failed for " \o blocks.packageName]

\* Mutant: the handle is cleared once the run is resolved.
KeepSessionJs_ClearsHandle ==
    /\ messageTs' = UNDEF
    /\ UNCHANGED <<slackClient, channelId>>

\* success and fail assign none of slackClient, messageTs, channelId.
KeepSessionJs == UNCHANGED <<slackClient, messageTs, channelId>>

PrepareJs ==
    /\ impl = "js"
    /\ phase = "start"
    /\ \E nextRelease \in NextReleases :
         LET c == Ctx(nextRelease, UNDEF, <<>>)
             messageBlocks == createStartMessageBlocks(c)
             slackToken == c.env.token
             channel == c.env.channel
         IN /\ channelId' = channel
            /\ phase' = "prepared"
            /\ UNCHANGED <<impl, others, built, pluginConfig, options, run, env>>
            /\ IF slackToken = UNDEF
               THEN /\ Observe("prepare", c, c.releases, "returned",
                               <<Info("No Slack token found")>>, <<>>)
                    /\ prep' = "skipped"
                    /\ UNCHANGED <<slackClient, messageTs, messages, posted, tsWrites>>
               ELSE IF channel = UNDEF
               THEN /\ Observe("prepare", c, c.releases, "returned",
                               <<Info("No Slack channel ID found")>>, <<>>)
                    /\ prep' = "skipped"
                    /\ UNCHANGED <<slackClient, messageTs, messages, posted, tsWrites>>
               ELSE
                 LET client == WebClient(slackToken)
                     call == postMessageJs(client, channel, messageBlocks)
                 IN /\ slackClient' = client
                    /\ \E outcome \in PostOutcomes(client, channel) :
                         IF outcome = "reject"
                         THEN /\ Observe("prepare", c, c.releases, "returned",
                                         <<Info("Posting release start notification"),
                                           Error("Error posting to Slack")>>,
                                         <<Answered(call, outcome)>>)
                              /\ prep' = "failed"
                              /\ UNCHANGED <<messageTs, messages, posted, tsWrites>>
                         ELSE
                           LET ts == IF outcome = "ok"
                                     THEN Handle(Len(messages) + 1) ELSE UNDEF
                           IN /\ messages' = Append(messages,
                                                [channel |-> channel, run |-> run])
                              /\ messageTs' = ts
                              /\ tsWrites' = tsWrites + 1
                              /\ prep' = IF outcome = "ok" THEN "ok" ELSE "nohandle"
                              /\ posted' = IF outcome = "ok"
                                           THEN [channel |-> channel, ts |-> ts]
                                           ELSE NoPost
                              /\ Observe("prepare", c, c.releases, "returned",
                                         <<Info("Posting release start notification"),
                                           Info("Posted to Slack")>>,
                                         <<Answered(call, outcome)>>)

SuccessJs ==
    /\ impl = "js"
    /\ phase \in {"start", "prepared"}
    /\ \E nextRelease \in NextReleases, releases \in ReleaseLists :
         LET c == Ctx(nextRelease, UNDEF, releases)
             messageBlocks == createSuccessMessageBlocks(c)
             consoleLog == <<Console("success"), Console("nextRelease")>>
         IN /\ phase' = "resolved"
            /\ KeepSessionJs
            /\ UNCHANGED <<impl, others, built, pluginConfig, options, run, env, messages, prep, posted, tsWrites>>
            /\ IF NotReadyJs
               THEN Observe("success", c, c.releases, "returned",
                            consoleLog \o <<Info("Skipping Slack notification")>>,
                            <<>>)
               ELSE IF ~nextRelease.present
               \* nextRelease.version throws inside the try block, before the call
               THEN Observe("success", c, c.releases, "returned",
                            consoleLog \o
                            <<Info("Posting release success notification"),
                              Error("Error updating Slack message")>>,
                            <<>>)
               ELSE
                 LET call == updateSuccessJs(messageBlocks)
                 IN \E outcome \in UpdateOutcomes(slackClient, channelId, messageTs) :
                      Observe("success", c, c.releases, "returned",
                              consoleLog \o
                              <<Info("Posting release success notification"),
                                IF outcome = "ok"
                                THEN Info("Successfully updated Slack message")
                                ELSE Error("Error updating Slack message")>>,
                              <<Answered(call, outcome)>>)

FailJs ==
    /\ impl = "js"
    /\ phase \in {"start", "prepared"}
    /\ \E nextRelease \in NextReleases :
         LET c == Ctx(nextRelease, UNDEF, <<>>)
             messageBlocks == createFailureMessageBlocks(c)
         IN /\ phase' = "resolved"
            /\ KeepSessionJs
            /\ UNCHANGED <<impl, others, built, pluginConfig, options, run, env, messages, prep, posted, tsWrites>>
            /\ IF NotReadyJs
               THEN Observe("fail", c, c.releases, "returned",
                            <<Info("Skipping Slack notification")>>, <<>>)
               ELSE
                 LET call == updateFailJs(messageBlocks)
                 IN \E outcome \in UpdateOutcomes(slackClient, channelId, messageTs) :
                      Observe("fail", c, c.releases, "returned",
                              <<Info("Posting release failure notification"),
                                IF outcome = "ok"
                                THEN Info("Successfully updated Slack message")
                                ELSE Error("Error updating Slack message")>>,
                              <<Answered(call, outcome)>>)

-----------------------------------------------------------------------------
(* src/index.ts *)

\* message.match(/\(#(\d+)\)$/)?.[1] || null
extractPrNumber(message) == IF message = CommitWithPr THEN "12" ELSE "null"

\* `${env.GITHUB_SERVER_URL}/${env.GITHUB_REPOSITORY}/actions/runs/${env.GITHUB_RUN_ID}`:
\* an absent identifier is interpolated as the text "undefined".
InterpolatedWorkflowUrl(ci) ==
    CASE CiVars \subseteq ci -> WorkflowUrl
      [] ci = {} -> "undefined/undefined/actions/runs/undefined"
      [] OTHER -> "https://github.com/o/r/actions/runs/undefined"

\* release?.name?.includes('npm') ? 'npm' : release.name
NamesWithNpm == {NpmName}
ShortName(name) == IF name \in NamesWithNpm THEN "npm" ELSE name

\* .filter((release) => release.url && release.name)
FilterReleases(releases) == SelectSeq(releases, HasUrlAndName)

\* context.releases.reverse().filter(...).map(...)
ReleaseLinksTs(releases) ==
    LET kept == FilterReleases(Reverse(releases))
    IN [i \in 1..Len(kept) |-> [url |-> kept[i].url, text |-> ShortName(kept[i].name)]]

statusTextTs(status) ==
    CASE status = "pending" -> "In Progress"
      [] status = "success" -> "Success"
      [] status = "failure" -> "Failed"

\* `https://github.com/${env.GITHUB_REPOSITORY}/pull/${prNumber}`
PrLink(ci, prNumber) ==
    "https://github.com/"
    \o (IF "GITHUB_REPOSITORY" \in ci THEN "o/r" ELSE UNDEF)
    \o "/pull/" \o prNumber

\* statusConfigs[status].message, as <<before, version text, after>>, or the
\* whole text when the template does not interpolate the version.  The
\* code-span marks around the names are markup and left out.
statusMessageTs(packageName, version, status) ==
    CASE status = "pending" -> <<"Releasing *" \o packageName \o "* ", "v" \o version, "">>
      [] status = "success" -> <<"Released *" \o packageName \o "* ", "v" \o version, "">>
      [] status = "failure" -> <<"Release failed for *" \o packageName \o "*">>

\* Mutant: release links for every status
isSuccess_Always(status) == TRUE
\* status === 'success', the condition of the release links
isSuccess(status) == status = "success"

\* Defined when getCurrentCommitMessage() returns (c.commit # GitFails).
createMessageAttachmentTs(c, status) ==
    LET version == IF OptVersion(c) = UNDEF THEN "" ELSE OptVersion(c)
        packageName == c.projectName
        workflow == <<[url |-> InterpolatedWorkflowUrl(c.env.ci), text |-> "workflow"]>>
        commitTitle == c.commit
        prNumber == extractPrNumber(commitTitle)
        prLink == PrLink(c.env.ci, prNumber)
        links == IF isSuccess(status)
                 THEN ReleaseLinksTs(c.releases) \o workflow
                 ELSE workflow
    IN [status |-> status,
        packageName |-> packageName,
        statusText |-> statusTextTs(status),
        version |-> version,
        fallback |-> packageName \o " v" \o version \o " - " \o statusTextTs(status),
        headline |-> statusMessageTs(packageName, version, status),
        links |-> links,
        linksSection |-> TRUE,
        pr |-> <<[url |-> prLink, text |-> commitTitle]>>]

\* success and fail assign none of slackClient, messageTs, channelId.
KeepSessionTs == UNCHANGED <<slackClient, messageTs, channelId>>

\* Array.prototype.reverse() reverses context.releases in place.
ReleasesAfterTs(c, status) ==
    IF status = "success" THEN Reverse(c.releases) ELSE c.releases

PrepareTs ==
    /\ impl = "ts"
    /\ phase = "start"
    /\ \E nextRelease \in NextReleases, commit \in Commits :
         LET c == Ctx(nextRelease, commit, <<>>)
         IN /\ phase' = "prepared"
            /\ UNCHANGED <<impl, others, built, pluginConfig, options, run, env>>
            /\ IF commit = GitFails
               THEN /\ Observe("prepare", c, c.releases, "threw", <<>>, <<>>)
                    /\ prep' = "failed"
                    /\ UNCHANGED <<slackClient, messageTs, channelId, messages,
                                   posted, tsWrites>>
               ELSE
                 LET messageAttachment == createMessageAttachmentTs(c, "pending")
                     client == WebClient(c.env.token)
                     channel == c.env.channel
                     call == PostCall(client, channel, messageAttachment)
                 IN /\ slackClient' = client
                    /\ channelId' = channel
                    /\ \E outcome \in PostOutcomes(client, channel) :
                         IF outcome = "reject"
                         THEN /\ Observe("prepare", c, c.releases, "threw",
                                         <<Info("Posting release start notification")>>,
                                         <<Answered(call, outcome)>>)
                              /\ prep' = "failed"
                              /\ UNCHANGED <<messageTs, messages, posted, tsWrites>>
                         ELSE
                           LET ts == IF outcome = "ok"
                                     THEN Handle(Len(messages) + 1) ELSE UNDEF
                           IN /\ messages' = Append(messages,
                                                [channel |-> channel, run |-> run])
                              /\ messageTs' = ts
                              /\ tsWrites' = tsWrites + 1
                              /\ prep' = IF outcome = "ok" THEN "ok" ELSE "nohandle"
                              /\ posted' = IF outcome = "ok"
                                           THEN [channel |-> channel, ts |-> ts]
                                           ELSE NoPost
                              /\ Observe("prepare", c, c.releases, "returned",
                                         <<Info("Posting release start notification"),
                                           Info("Posted to Slack")>>,
                                         <<Answered(call, outcome)>>)

SuccessTs ==
    /\ impl = "ts"
    /\ phase \in {"start", "prepared"}
    /\ \E nextRelease \in NextReleases, commit \in Commits, releases \in ReleaseLists :
         LET c == Ctx(nextRelease, commit, releases)
         IN /\ phase' = "resolved"
            /\ KeepSessionTs
            /\ UNCHANGED <<impl, others, built, pluginConfig, options, run, env, messages, prep, posted, tsWrites>>
            /\ IF commit = GitFails
               THEN Observe("success", c, c.releases, "threw", <<>>, <<>>)
               ELSE
                 LET messageAttachment == createMessageAttachmentTs(c, "success")
                     after == ReleasesAfterTs(c, "success")
                     posting == Info("Posting release success notification")
                 IN IF slackClient = UNDEF
                    \* slackClient.chat on undefined: a TypeError, no request
                    THEN Observe("success", c, after, "threw", <<posting>>, <<>>)
                    ELSE
                      LET call == UpdateCall(slackClient, channelId, messageTs,
                                             messageAttachment)
                      IN \E outcome \in UpdateOutcomes(slackClient, channelId, messageTs) :
                           IF outcome = "reject"
                           THEN Observe("success", c, after, "threw", <<posting>>,
                                        <<Answered(call, outcome)>>)
                           ELSE Observe("success", c, after, "returned",
                                        <<posting,
                                          Info("Successfully updated Slack message")>>,
                                        <<Answered(call, outcome)>>)

FailTs ==
    /\ impl = "ts"
    /\ phase \in {"start", "prepared"}
    /\ \E nextRelease \in NextReleases, commit \in Commits :
         LET c == Ctx(nextRelease, commit, <<>>)
         IN /\ phase' = "resolved"
            /\ KeepSessionTs
            /\ UNCHANGED <<impl, others, built, pluginConfig, options, run, env, messages, prep, posted, tsWrites>>
            /\ IF commit = GitFails
               THEN Observe("fail", c, c.releases, "threw", <<>>, <<>>)
               ELSE
                 LET messageAttachment == createMessageAttachmentTs(c, "failure")
                     after == ReleasesAfterTs(c, "failure")
                     posting == Info("Posting release failure notification")
                 IN IF slackClient = UNDEF
                    THEN Observe("fail", c, after, "threw", <<posting>>, <<>>)
                    ELSE
                      LET call == UpdateCall(slackClient, channelId, messageTs,
                                             messageAttachment)
                      IN \E outcome \in UpdateOutcomes(slackClient, channelId, messageTs) :
                           IF outcome = "reject"
                           THEN Observe("fail", c, after, "threw", <<posting>>,
                                        <<Answered(call, outcome)>>)
                           ELSE Observe("fail", c, after, "returned",
                                        <<posting,
                                          Info("Successfully updated Slack message")>>,
                                        <<Answered(call, outcome)>>)

-----------------------------------------------------------------------------
(* The attachment variant in JavaScript (src/unnamed/part_002) *)

\* release.name.replace(/\s*(\(.*?\))/g, '')
StripParens(name) == IF name = NpmName THEN "npm package" ELSE name

\* context.releases.reverse().filter(...).map(...).forEach(push)
ReleaseLinksP2(releases) ==
    LET kept == FilterReleases(Reverse(releases))
    IN [i \in 1..Len(kept) |-> [url |-> kept[i].url, text |-> StripParens(kept[i].name)]]

\* const { nextRelease: { version } } = context throws when nextRelease is
\* absent; getCurrentCommitMessage() throws when git fails.
BuildThrowsP2(c) == ~c.nextRelease.present \/ c.commit = GitFails

\* success and fail assign none of slackClient, messageTs, channelId.
KeepSessionP2 == UNCHANGED <<slackClient, messageTs, channelId>>

\* statusConfigs[status].message, as <<before, version text, after>>, or the
\* whole text when the template does not interpolate the version.  The
\* code-span marks around the names are markup and left out.
statusMessageP2(packageName, version, status) ==
    CASE status = "pending" -> <<"Releasing " \o packageName \o " ", "v" \o version, "">>
      [] status = "success" -> <<"Released " \o packageName \o " ", "v" \o version, "">>
      [] status = "failure" -> <<"Release failed for " \o packageName>>

\* Defined when ~BuildThrowsP2(c).
createMessageAttachmentP2(c, status) ==
    LET version == c.nextRelease.version
        packageName == c.projectName
        workflow == <<[url |-> InterpolatedWorkflowUrl(c.env.ci),
                       text |-> "View workflow"]>>
        commitTitle == c.commit
        prNumber == extractPrNumber(commitTitle)
        prLink == PrLink(c.env.ci, prNumber)
        releaseLinks == IF status = "success" THEN ReleaseLinksP2(c.releases) ELSE <<>>
    IN [status |-> status,
        packageName |-> packageName,
        statusText |-> statusTextTs(status),
        version |-> version,
        fallback |-> packageName \o " v" \o version \o " - " \o statusTextTs(status),
        headline |-> statusMessageP2(packageName, version, status),
        links |-> releaseLinks \o workflow,
        linksSection |-> TRUE,
        pr |-> <<[url |-> prLink, text |-> commitTitle]>>]

PrepareP2 ==
    /\ impl = "p2"
    /\ phase = "start"
    /\ \E nextRelease \in NextReleases, commit \in Commits :
         LET c == Ctx(nextRelease, commit, <<>>)
         IN /\ phase' = "prepared"
            /\ UNCHANGED <<impl, others, built, pluginConfig, options, run, env>>
            /\ IF BuildThrowsP2(c)
               THEN /\ Observe("prepare", c, c.releases, "threw", <<>>, <<>>)
                    /\ prep' = "failed"
                    /\ UNCHANGED <<slackClient, messageTs, channelId, messages,
                                   posted, tsWrites>>
               ELSE
                 LET messageAttachment == createMessageAttachmentP2(c, "pending")
                     client == WebClient(c.env.token)
                     channel == c.env.channel
                     call == PostCall(client, channel, messageAttachment)
                 IN /\ slackClient' = client
                    /\ channelId' = channel
                    /\ \E outcome \in PostOutcomes(client, channel) :
                         IF outcome = "reject"
                         THEN /\ Observe("prepare", c, c.releases, "threw",
                                         <<Info("Posting release start notification")>>,
                                         <<Answered(call, outcome)>>)
                              /\ prep' = "failed"
                              /\ UNCHANGED <<messageTs, messages, posted, tsWrites>>
                         ELSE
                           LET ts == IF outcome = "ok"
                                     THEN Handle(Len(messages) + 1) ELSE UNDEF
                           IN /\ messages' = Append(messages,
                                                [channel |-> channel, run |-> run])
                              /\ messageTs' = ts
                              /\ tsWrites' = tsWrites + 1
                              /\ prep' = IF outcome = "ok" THEN "ok" ELSE "nohandle"
                              /\ posted' = IF outcome = "ok"
                                           THEN [channel |-> channel, ts |-> ts]
                                           ELSE NoPost
                              /\ Observe("prepare", c, c.releases, "returned",
                                         <<Info("Posting release start notification"),
                                           Info("Posted to Slack")>>,
                                         <<Answered(call, outcome)>>)

SuccessP2 ==
    /\ impl = "p2"
    /\ phase \in {"start", "prepared"}
    /\ \E nextRelease \in NextReleases, commit \in Commits, releases \in ReleaseLists :
         LET c == Ctx(nextRelease, commit, releases)
         IN /\ phase' = "resolved"
            /\ KeepSessionP2
            /\ UNCHANGED <<impl, others, built, pluginConfig, options, run, env, messages, prep, posted, tsWrites>>
            /\ IF BuildThrowsP2(c)
               THEN Observe("success", c, c.releases, "threw", <<>>, <<>>)
               ELSE
                 LET messageAttachment == createMessageAttachmentP2(c, "success")
                     after == Reverse(c.releases)
                     posting == Info("Posting release success notification")
                 IN IF slackClient = UNDEF
                    THEN Observe("success", c, after, "threw", <<posting>>, <<>>)
                    ELSE
                      LET call == UpdateCall(slackClient, channelId, messageTs,
                                             messageAttachment)
                      IN \E outcome \in UpdateOutcomes(slackClient, channelId, messageTs) :
                           IF outcome = "reject"
                           THEN Observe("success", c, after, "threw", <<posting>>,
                                        <<Answered(call, outcome)>>)
                           ELSE Observe("success", c, after, "returned",
                                        <<posting,
                                          Info("Successfully updated Slack message")>>,
                                        <<Answered(call, outcome)>>)

FailP2 ==
    /\ impl = "p2"
    /\ phase \in {"start", "prepared"}
    /\ \E nextRelease \in NextReleases, commit \in Commits :
         LET c == Ctx(nextRelease, commit, <<>>)
         IN /\ phase' = "resolved"
            /\ KeepSessionP2
            /\ UNCHANGED <<impl, others, built, pluginConfig, options, run, env, messages, prep, posted, tsWrites>>
            /\ IF BuildThrowsP2(c)
               THEN Observe("fail", c, c.releases, "threw", <<>>, <<>>)
               ELSE
                 LET messageAttachment == createMessageAttachmentP2(c, "failure")
                     posting == Info("Posting release failure notification")
                 IN IF slackClient = UNDEF
                    THEN Observe("fail", c, c.releases, "threw", <<posting>>, <<>>)
                    ELSE
                      LET call == UpdateCall(slackClient, channelId, messageTs,
                                             messageAttachment)
                      IN \E outcome \in UpdateOutcomes(slackClient, channelId, messageTs) :
                           IF outcome = "reject"
                           THEN Observe("fail", c, c.releases, "threw", <<posting>>,
                                        <<Answered(call, outcome)>>)
                           ELSE Observe("fail", c, c.releases, "returned",
                                        <<posting,
                                          Info("Successfully updated Slack message")>>,
                                        <<Answered(call, outcome)>>)

-----------------------------------------------------------------------------
(* The orchestrator *)

\* A new release run in the same process: the module state stays as the
\* previous run left it, and so does the process environment.
NewRun ==
    /\ phase = "resolved"
    /\ run < MaxRuns
    /\ run' = run + 1
    /\ phase' = "start"
    /\ prep' = "none"
    /\ posted' = NoPost
    /\ tsWrites' = 0
    /\ Observe("none", NoCtx, <<>>, "returned", <<>>, <<>>)
    /\ UNCHANGED <<impl, others, built, pluginConfig, options, env, slackClient, messageTs, channelId, messages>>

InitState ==
    /\ slackClient = UNDEF
    /\ messageTs = UNDEF
    /\ channelId = UNDEF
    /\ messages = <<>>
    /\ run = 1
    /\ phase = "start"
    /\ env \in Envs
    /\ prep = "none"
    /\ posted = NoPost
    /\ tsWrites = 0
    /\ hook = "none"
    /\ releasesOut = <<>>
    /\ result = "returned"
    /\ log = <<>>
    /\ sent = <<>>
    /\ built = <<>>
    /\ others = <<>>

\* The release configuration gives the plugin no options.
Init ==
    /\ impl \in Impls /\ InitState /\ ctx = NoCtx
    /\ pluginConfig = NoPluginConfig /\ options = NoOptions

Next ==
    \/ NewRun
    \/ PrepareJs \/ SuccessJs \/ FailJs
    \/ PrepareTs \/ SuccessTs \/ FailTs
    \/ PrepareP2 \/ SuccessP2 \/ FailP2

Spec == Init /\ [][Next]_vars

\* The process that has loaded index.js.
InitJs ==
    /\ impl = "js" /\ InitState /\ ctx = NoCtx
    /\ pluginConfig = NoPluginConfig /\ options = NoOptions

NextJs == NewRun \/ PrepareJs \/ SuccessJs \/ FailJs

SpecJs == InitJs /\ [][NextJs]_vars

\* The release configuration may give the plugin a channelId.
InitPlugin ==
    /\ impl \in Impls /\ InitState /\ ctx = NoCtx /\ pluginConfig \in PluginConfigs
    /\ options = NoOptions

SpecPlugin == InitPlugin /\ [][Next]_vars

-----------------------------------------------------------------------------
\* Release runs interleaved in one process.  The hooks are functions exported
\* by one module, and every caller shares the module's slackClient, messageTs
\* and channelId.

\* What the orchestrator keeps of a run while it calls the hooks of another.
RunRecord ==
    [run |-> run, phase |-> phase, prep |-> prep, posted |-> posted,
     tsWrites |-> tsWrites]

\* A further release run begins while the current one is prepared and not yet
\* resolved.  The module state stays as the prepare of the current run left it.
StartConcurrentRun ==
    /\ phase = "prepared"
    /\ Len(others) + 1 < MaxRuns
    /\ others' = Append(others, RunRecord)
    /\ run' = Len(others) + 2
    /\ phase' = "start"
    /\ prep' = "none"
    /\ posted' = NoPost
    /\ tsWrites' = 0
    /\ Observe("none", NoCtx, <<>>, "returned", <<>>, <<>>)
    /\ UNCHANGED <<impl, built, pluginConfig, options, env, slackClient, messageTs, channelId, messages>>

\* The orchestrator goes back to a run that is prepared and not yet resolved,
\* to call its success or fail hook.  The module state stays as the last hook
\* call left it.
ResumeRun ==
    /\ phase \in {"prepared", "resolved"}
    /\ \E i \in 1..Len(others) :
          /\ others[i].phase = "prepared"
          /\ others' = [others EXCEPT ![i] = RunRecord]
          /\ run' = others[i].run
          /\ phase' = others[i].phase
          /\ prep' = others[i].prep
          /\ posted' = others[i].posted
          /\ tsWrites' = others[i].tsWrites
    /\ Observe("none", NoCtx, <<>>, "returned", <<>>, <<>>)
    /\ UNCHANGED <<impl, built, pluginConfig, options, env, slackClient, messageTs, channelId, messages>>

NextInterleaved ==
    \/ StartConcurrentRun
    \/ ResumeRun
    \/ PrepareJs \/ SuccessJs \/ FailJs
    \/ PrepareTs \/ SuccessTs \/ FailTs
    \/ PrepareP2 \/ SuccessP2 \/ FailP2

SpecInterleaved == Init /\ [][NextInterleaved]_vars

-----------------------------------------------------------------------------
(* part_001 and part_003: the block variants that report release types.   *)
(* "p1" builds all three messages with one createMessageBlocks, "p3" has  *)
(* a builder per message.  Their hooks are those of index.js, preceded by *)
(* the passing of the release types from pluginConfig to the context.     *)

TypedImpls == {"p1", "p3"}

\* The context of a hook call of these variants: releaseTypes and
\* releaseTypesExplicit are the properties the hooks add to it.
CtxT(nextRelease, releaseTypes, releaseTypesExplicit) ==
    [env |-> env, projectName |-> PackageName, nextRelease |-> nextRelease,
     commit |-> UNDEF, releases |-> <<>>, options |-> options,
     releaseTypes |-> releaseTypes, releaseTypesExplicit |-> releaseTypesExplicit]

\* String.prototype.includes, on the pieces of the string.
includes(cmd, piece) == \E i \in 1..Len(cmd.parts) : cmd.parts[i] = piece

\* A value in a condition: undefined and the empty string are falsy.
Truthy(cmd) ==
    \/ cmd.type = "object"
    \/ cmd.type = "string" /\ cmd.parts # <<>>

\* Mutant: the plugin's name is not looked at.
detectS3Publishing_AnyPlugin(context) ==
    /\ context.options.plugins.present
    /\ \E i \in 1..Len(context.options.plugins.list) :
         LET plugin == context.options.plugins.list[i]
         IN /\ plugin.isArray /\ plugin.length >= 2
            /\ Truthy(plugin.publishCmd)
            /\ plugin.publishCmd.type = "string"
            /\ includes(plugin.publishCmd, S3Script)

detectS3Publishing(context) ==
    IF ~context.options.plugins.present THEN FALSE
    ELSE \E i \in 1..Len(context.options.plugins.list) :
           LET plugin == context.options.plugins.list[i]
           IN IF ~plugin.isArray \/ plugin.length < 2 THEN FALSE
              ELSE IF plugin.pluginName # ExecName THEN FALSE
              ELSE /\ Truthy(plugin.publishCmd)
                   /\ plugin.publishCmd.type = "string"
                   /\ includes(plugin.publishCmd, S3Script)

\* prepare: "Pass release types from pluginConfig to context".
passReleaseTypes(context) ==
    IF pluginConfig.releaseTypes.set
    THEN [context EXCEPT !.releaseTypes = pluginConfig.releaseTypes,
                         !.releaseTypesExplicit = TRUE]
    ELSE [context EXCEPT
            !.releaseTypes = Types(<<"npm">> \o (IF detectS3Publishing(context)
                                                 THEN <<"s3">> ELSE <<>>)),
            !.releaseTypesExplicit = FALSE]

\* success: the same "if not already set".
passReleaseTypesIfUnset(context) ==
    IF ~context.releaseTypes.set THEN passReleaseTypes(context) ELSE context

\* type.toUpperCase()
toUpperCase(type) ==
    CASE type = "npm" -> "NPM"
      [] type = "s3" -> "S3"

\* Array.prototype.join
RECURSIVE join(_, _)
join(list, separator) ==
    IF list = <<>> THEN ""
    ELSE IF Len(list) = 1 THEN list[1]
    ELSE list[1] \o separator \o join(Tail(list), separator)

\* releaseTypes.map((type) => type.toUpperCase()).join(' & ')
releaseTypesText(releaseTypes) ==
    join([i \in 1..Len(releaseTypes) |-> toUpperCase(releaseTypes[i])], " & ")

Has(releaseTypes, type) == \E i \in 1..Len(releaseTypes) : releaseTypes[i] = type

\* The links by release type; version is the text interpolated in the URLs.
typeLinks(releaseTypes, packageName, version, npmText, cdnText) ==
    (IF Has(releaseTypes, "npm")
     THEN <<[url |-> "https://www.npmjs.com/package/" \o packageName \o "/v/" \o version,
             text |-> npmText]>>
     ELSE <<>>)
    \o (IF Has(releaseTypes, "s3")
        THEN <<[url |-> "https://cdn.example.com/" \o packageName \o "/" \o version \o "/",
                text |-> cdnText]>>
        ELSE <<>>)

\* part_001
createMessageBlocksP1(c, status, version) ==
    LET packageName == c.projectName
        releaseTypes == IF c.releaseTypes.set THEN c.releaseTypes.types ELSE <<"npm">>
        releaseLinks == IF status = "success" /\ version # UNDEF
                        THEN typeLinks(releaseTypes, packageName, version, "NPM", "CDN")
                        ELSE <<>>
    IN [status |-> status,
        packageName |-> packageName,
        statusText |-> statusTextJs(status),
        version |-> version,
        headline |-> <<"*" \o packageName \o "* ",
                       IF version # UNDEF THEN "v" \o version ELSE "",
                       "">>,
        typesShown |-> TRUE,
        releaseTypesText |-> releaseTypesText(releaseTypes),
        links |-> releaseLinks,
        linksSection |-> Len(releaseLinks) > 0,
        pr |-> <<>>]

createStartMessageBlocksP1(c) == createMessageBlocksP1(c, "pending", UNDEF)
createSuccessMessageBlocksP1(c) == createMessageBlocksP1(c, "success", OptVersion(c))
createFailureMessageBlocksP1(c) == createMessageBlocksP1(c, "failure", UNDEF)

\* part_003: SEMANTIC_RELEASE_PACKAGE || npm_package_name || 'package', with
\* neither variable in the environment.
PackageNameP3 == "package"

createStartMessageBlocksP3(c) ==
    LET given == IF c.releaseTypes.set THEN c.releaseTypes.types ELSE <<"npm">>
        releaseTypes == IF ~c.releaseTypesExplicit /\ detectS3Publishing(c)
                           /\ ~Has(given, "s3")
                        THEN given \o <<"s3">>
                        ELSE given
        version == IF OptVersion(c) = UNDEF THEN "unknown" ELSE OptVersion(c)
    IN [status |-> "pending",
        packageName |-> PackageNameP3,
        statusText |-> "In Progress",
        version |-> version,
        headline |-> <<"Starting " \o releaseTypesText(releaseTypes)
                       \o " release process for version " \o version>>,
        typesShown |-> TRUE,
        releaseTypesText |-> releaseTypesText(releaseTypes),
        links |-> <<>>,
        linksSection |-> TRUE,
        pr |-> <<>>]

\* Defined when nextRelease is present: the builder reads nextRelease.gitHead.
createSuccessMessageBlocksP3(c) ==
    LET releaseTypes == IF c.releaseTypes.set THEN c.releaseTypes.types ELSE <<"npm">>
        version == c.nextRelease.version
    IN [status |-> "success",
        packageName |-> PackageNameP3,
        statusText |-> "Success",
        version |-> version,
        headline |-> <<"*" \o PackageNameP3 \o " ", "v" \o version, "*">>,
        typesShown |-> FALSE,
        releaseTypesText |-> "",
        links |-> typeLinks(releaseTypes, PackageNameP3, version,
                            "NPM Release", "S3 Release"),
        linksSection |-> TRUE,
        pr |-> <<>>]

createFailureMessageBlocksP3(c) ==
    [status |-> "failure",
     packageName |-> PackageNameP3,
     statusText |-> "Failed",
     version |-> UNDEF,
     headline |-> <<"Release failed for " \o PackageNameP3>>,
     typesShown |-> FALSE,
     releaseTypesText |-> "",
     links |-> <<>>,
     linksSection |-> FALSE,
     pr |-> <<>>]

\* The context of success and fail holds what prepare added to the context
\* of the run, when prepare was called.
carried(nextRelease) ==
    IF phase = "prepared"
    THEN CtxT(nextRelease, ctx.releaseTypes, ctx.releaseTypesExplicit)
    ELSE CtxT(nextRelease, NoTypes, FALSE)

\* prepare, from the token check on.
postStart(c, messageBlocks) ==
    LET slackToken == c.env.token
        channel == c.env.channel
    IN /\ channelId' = channel
       /\ phase' = "prepared"
       /\ UNCHANGED <<impl, others, run, env, built, pluginConfig, options>>
       /\ IF slackToken = UNDEF
          THEN /\ Observe("prepare", c, c.releases, "returned",
                          <<Info("No Slack token found")>>, <<>>)
               /\ prep' = "skipped"
               /\ UNCHANGED <<slackClient, messageTs, messages, posted, tsWrites>>
          ELSE IF channel = UNDEF
          THEN /\ Observe("prepare", c, c.releases, "returned",
                          <<Info("No Slack channel ID found")>>, <<>>)
               /\ prep' = "skipped"
               /\ UNCHANGED <<slackClient, messageTs, messages, posted, tsWrites>>
          ELSE
            LET client == WebClient(slackToken)
                call == postMessageJs(client, channel, messageBlocks)
            IN /\ slackClient' = client
               /\ \E outcome \in PostOutcomes(client, channel) :
                    IF outcome = "reject"
                    THEN /\ Observe("prepare", c, c.releases, "returned",
                                    <<Info("Posting release start notification"),
                                      Error("Error posting to Slack")>>,
                                    <<Answered(call, outcome)>>)
                         /\ prep' = "failed"
                         /\ UNCHANGED <<messageTs, messages, posted, tsWrites>>
                    ELSE
                      LET ts == IF outcome = "ok"
                                THEN Handle(Len(messages) + 1) ELSE UNDEF
                      IN /\ messages' = Append(messages,
                                           [channel |-> channel, run |-> run])
                         /\ messageTs' = ts
                         /\ tsWrites' = tsWrites + 1
                         /\ prep' = IF outcome = "ok" THEN "ok" ELSE "nohandle"
                         /\ posted' = IF outcome = "ok"
                                      THEN [channel |-> channel, ts |-> ts]
                                      ELSE NoPost
                         /\ Observe("prepare", c, c.releases, "returned",
                                    <<Info("Posting release start notification"),
                                      Info("Posted to Slack")>>,
                                    <<Answered(call, outcome)>>)

\* success and fail, from the readiness check on; textThrows says that
\* building the text of the request throws inside the try block.
updatePosted(h, c, call, posting, textThrows) ==
    /\ phase' = "resolved"
    /\ KeepSessionJs
    /\ UNCHANGED <<impl, others, run, env, messages, prep, posted, tsWrites, built,
                   pluginConfig, options>>
    /\ IF NotReadyJs
       THEN Observe(h, c, c.releases, "returned",
                    <<Info("Skipping Slack notification")>>, <<>>)
       ELSE IF textThrows
       THEN Observe(h, c, c.releases, "returned",
                    <<Info(posting), Error("Error updating Slack message")>>, <<>>)
       ELSE \E outcome \in UpdateOutcomes(slackClient, channelId, messageTs) :
              Observe(h, c, c.releases, "returned",
                      <<Info(posting),
                        IF outcome = "ok"
                        THEN Info("Successfully updated Slack message")
                        ELSE Error("Error updating Slack message")>>,
                      <<Answered(call, outcome)>>)

\* A hook whose message builder throws, before any log entry or request.
builderThrows(h, c) ==
    /\ phase' = "resolved"
    /\ KeepSessionJs
    /\ UNCHANGED <<impl, others, run, env, messages, prep, posted, tsWrites, built,
                   pluginConfig, options>>
    /\ Observe(h, c, c.releases, "threw", <<>>, <<>>)

PrepareP1 ==
    /\ impl = "p1"
    /\ phase = "start"
    /\ \E nextRelease \in NextReleases :
         LET c == passReleaseTypes(CtxT(nextRelease, NoTypes, FALSE))
         IN postStart(c, createStartMessageBlocksP1(c))

SuccessP1 ==
    /\ impl = "p1"
    /\ phase \in {"start", "prepared"}
    /\ \E nextRelease \in NextReleases :
         LET c == passReleaseTypesIfUnset(carried(nextRelease))
             messageBlocks == createSuccessMessageBlocksP1(c)
         IN updatePosted("success", c, updateSuccessJs(messageBlocks),
                         "Posting release success notification",
                         ~nextRelease.present)

FailP1 ==
    /\ impl = "p1"
    /\ phase \in {"start", "prepared"}
    /\ \E nextRelease \in NextReleases :
         LET c == carried(nextRelease)
             messageBlocks == createFailureMessageBlocksP1(c)
         IN updatePosted("fail", c, updateFailJs(messageBlocks),
                         "Posting release failure notification", FALSE)

PrepareP3 ==
    /\ impl = "p3"
    /\ phase = "start"
    /\ \E nextRelease \in NextReleases :
         LET c == passReleaseTypes(CtxT(nextRelease, NoTypes, FALSE))
         IN postStart(c, createStartMessageBlocksP3(c))

SuccessP3 ==
    /\ impl = "p3"
    /\ phase \in {"start", "prepared"}
    /\ \E nextRelease \in NextReleases :
         LET c == passReleaseTypesIfUnset(carried(nextRelease))
         IN IF ~nextRelease.present
            THEN builderThrows("success", c)
            ELSE updatePosted("success", c,
                              updateSuccessJs(createSuccessMessageBlocksP3(c)),
                              "Posting release success notification", FALSE)

FailP3 ==
    /\ impl = "p3"
    /\ phase \in {"start", "prepared"}
    /\ \E nextRelease \in NextReleases :
         LET c == carried(nextRelease)
         IN updatePosted("fail", c, updateFailJs(createFailureMessageBlocksP3(c)),
                         "Posting release failure notification", FALSE)

\* One release run of a process that has loaded part_001 or part_003, under
\* a release configuration with or without plugins and release types.
InitTypes ==
    /\ impl \in TypedImpls
    /\ InitState
    /\ ctx = NoCtx
    /\ pluginConfig \in TypeConfigs
    /\ options \in OptionsSet

NextTypes ==
    \/ PrepareP1 \/ SuccessP1 \/ FailP1
    \/ PrepareP3 \/ SuccessP3 \/ FailP3

SpecTypes == InitTypes /\ [][NextTypes]_vars

-----------------------------------------------------------------------------
(* The message builders on their own: a context is given, and the builder *)
(* of the loaded variant is called on it once, for one of the statuses.   *)

Statuses == {"pending", "success", "failure"}

NotBuilt == built = <<>> /\ result = "returned"

BuildJs ==
    /\ impl = "js"
    /\ NotBuilt
    /\ \E status \in Statuses :
         LET blocks == CASE status = "pending" -> createStartMessageBlocks(ctx)
                         [] status = "success" -> createSuccessMessageBlocks(ctx)
                         [] status = "failure" -> createFailureMessageBlocks(ctx)
         IN /\ built' = <<blocks>>
            /\ releasesOut' = ctx.releases
            /\ UNCHANGED <<impl, others, slackClient, messageTs, channelId, messages, run,
                           phase, env, prep, posted, tsWrites, hook, ctx,
                           result, log, sent, pluginConfig, options>>

BuildTs ==
    /\ impl = "ts"
    /\ NotBuilt
    /\ \E status \in Statuses :
         /\ IF ctx.commit = GitFails
            THEN /\ result' = "threw"
                 /\ UNCHANGED <<built, releasesOut>>
            ELSE /\ built' = <<createMessageAttachmentTs(ctx, status)>>
                 /\ releasesOut' = ReleasesAfterTs(ctx, status)
                 /\ UNCHANGED result
         /\ UNCHANGED <<impl, others, slackClient, messageTs, channelId, messages, run,
                        phase, env, prep, posted, tsWrites, hook, ctx, log, sent,
                        pluginConfig, options>>

BuildP2 ==
    /\ impl = "p2"
    /\ NotBuilt
    /\ \E status \in Statuses :
         /\ IF BuildThrowsP2(ctx)
            THEN /\ result' = "threw"
                 /\ UNCHANGED <<built, releasesOut>>
            ELSE /\ built' = <<createMessageAttachmentP2(ctx, status)>>
                 /\ releasesOut' = IF status = "success"
                                   THEN Reverse(ctx.releases) ELSE ctx.releases
                 /\ UNCHANGED result
         /\ UNCHANGED <<impl, others, slackClient, messageTs, channelId, messages, run,
                        phase, env, prep, posted, tsWrites, hook, ctx, log, sent,
                        pluginConfig, options>>

\* The contexts a builder can be given by the loaded variant's hooks.
InitBuild ==
    /\ impl \in Impls
    /\ InitState
    /\ pluginConfig = NoPluginConfig
    /\ options = NoOptions
    /\ \E nextRelease \in NextReleases, releases \in ReleaseLists,
          commit \in (IF impl = "js" THEN {UNDEF} ELSE Commits) :
         ctx = Ctx(nextRelease, commit, releases)

NextBuild == BuildJs \/ BuildTs \/ BuildP2

SpecBuild == InitBuild /\ [][NextBuild]_vars

-----------------------------------------------------------------------------
(* Properties *)

Resolving == hook \in {"success", "fail"}
UpdatesSent == {i \in 1..Len(sent) : sent[i].op = "update"}
PostsSent == {i \in 1..Len(sent) : sent[i].op = "postMessage"}
ConfigMissing(c) == c.env.token = UNDEF \/ c.env.channel = UNDEF
Urls(links) == [i \in 1..Len(links) |-> links[i].url]
IsArtifactUrl(url) == url \in {r.url : r \in Releases} \ {UNDEF}
ArtifactLinks(msg) == SelectSeq(msg.links, LAMBDA l : IsArtifactUrl(l.url))
\* The supplied list reversed, without the entries lacking a name or a URL.
ReversedFiltered(releases) ==
    SelectSeq(Reverse(releases), LAMBDA r : r.url # UNDEF /\ r.name # UNDEF)

\* C1: success and fail issue no chat-service request when prepare was not
\* called in the current run or did not end with a posted message and its
\* handle, whatever hooks earlier runs of the process called.
C1_NoRequestWithoutPrepare ==
    (Resolving /\ prep # "ok") => sent = <<>>

\* C2: prepare called with the token or the channel identifier missing from
\* the environment issues no request, returns normally and logs an
\* informational entry.
C2_PrepareSkipsWithoutConfig ==
    (hook = "prepare" /\ ConfigMissing(ctx)) =>
        /\ sent = <<>>
        /\ result = "returned"
        /\ \E i \in 1..Len(log) : log[i].via = "logger.log"

\* C3: when the chat-service request of prepare, success or fail is rejected,
\* the hook returns normally and an error entry is logged.
C3_ChatErrorsCaught ==
    \A i \in 1..Len(sent) :
        sent[i].outcome = "reject" =>
            /\ result = "returned"
            /\ \E j \in 1..Len(log) : log[j].via = "logger.error"

\* C4: no call of prepare, success or fail ends by throwing, for any context
\* the orchestrator supplies.
C4_HooksNeverThrow == result = "returned"

\* C5 as stated: in every release run the handle is assigned exactly once
\* before the run is resolved.
C5_HandleSetExactlyOncePerRun == phase = "resolved" => tsWrites = 1

\* C5 (amended): success and fail leave client, channel id and handle
\* unchanged; the session changes only in prepare; the handle is assigned at
\* most once per run, namely exactly when the run's post was answered, and
\* never after the run is resolved.
C5_SessionWrittenOnlyByPrepare ==
    /\ [](/\ tsWrites <= 1
          /\ (tsWrites = 1 <=> prep \in {"ok", "nohandle"})
          /\ (prep = "ok" => messageTs = posted.ts /\ channelId = posted.channel))
    /\ [][/\ (phase' = "resolved" /\ phase # "resolved") => session' = session
          /\ (session' # session \/ tsWrites' > tsWrites) =>
                 (hook' = "prepare" /\ phase = "start")]_vars

C5_Witness ==
    hook = "success" /\ prep = "ok" /\ tsWrites = 1 /\ UpdatesSent # {}

\* C6: every update issued by success or fail carries the channel the current
\* run's prepare posted to and the handle the chat service returned for it.
C6_UpdateTargetsOwnPost ==
    \A i \in UpdatesSent :
        /\ prep = "ok"
        /\ sent[i].channel = posted.channel
        /\ sent[i].ts = posted.ts

\* C7: prepare with token and channel present issues exactly one request, a
\* postMessage; success and fail issue at most one request and never a
\* postMessage; a run creates at most one message.
C7_OnePostPerRun ==
    /\ (hook = "prepare" /\ ~ConfigMissing(ctx)) =>
           (Len(sent) = 1 /\ PostsSent = {1} /\ sent[1].channel = ctx.env.channel)
    /\ Resolving => PostsSent = {}
    /\ Cardinality({i \in 1..Len(messages) : messages[i].run = run}) <= 1

C7_Witness ==
    /\ hook = "success" /\ prep = "ok" /\ UpdatesSent = {1}
    /\ Len(messages) = run /\ run = MaxRuns

\* C8: an update issued in a run never carries the handle of a message that
\* an earlier run of the process posted.
C8_NoHandleOfEarlierRun ==
    \A i \in UpdatesSent :
        \A n \in 1..Len(messages) :
            sent[i].ts = Handle(n) => messages[n].run = run

\* C9: the artifact links of the success message (of a release with a
\* produced version) are the supplied list reversed, without the entries that
\* lack a name or a URL.
C9_LinksReversedAndFiltered ==
    \A i \in UpdatesSent :
        (hook = "success" /\ ctx.nextRelease.version # UNDEF) =>
            Urls(ArtifactLinks(sent[i].msg)) = Urls(ReversedFiltered(ctx.releases))

\* C10 as stated: with no artifact left after filtering, the success update
\* has no links section.
C10_NoLinksSection ==
    \A i \in UpdatesSent :
        (hook = "success" /\ ReversedFiltered(ctx.releases) = <<>>) =>
            ~sent[i].msg.linksSection

\* C10 (amended): with no artifact left after filtering, the success update
\* holds no artifact link; its links section holds the workflow link alone,
\* and index.js omits the section when it has no workflow URL either.
C10_NoArtifactLinks ==
    \A i \in UpdatesSent :
        (hook = "success" /\ ReversedFiltered(ctx.releases) = <<>>) =>
            LET msg == sent[i].msg
            IN /\ msg.linksSection => Len(msg.links) = 1
               /\ \A k \in 1..Len(msg.links) :
                      msg.links[k].text \in {"Workflow Run", "workflow", "View workflow"}
               /\ impl = "js" => (msg.linksSection <=> CiVars \subseteq ctx.env.ci)
               /\ impl # "js" => msg.linksSection

C10_Witness ==
    /\ hook = "success" /\ UpdatesSent # {}
    /\ ctx.releases # <<>> /\ ReversedFiltered(ctx.releases) = <<>>

VersionKnown == ctx.nextRelease.present /\ ctx.nextRelease.version # UNDEF
\* The plain-text summary a request carries: its text parameter, or the
\* fallback of its attachment.
FallbackOf(call) == IF call.text # UNDEF THEN call.text ELSE call.msg.fallback
StatusLabel(status) ==
    CASE status = "pending" -> "In Progress"
      [] status = "success" -> "Success"
      [] status = "failure" -> "Failed"

\* C11: with a version produced, every message sent to the chat service
\* carries the plain-text fallback "<packageName> v<version> - <StatusLabel>"
\* of its status; prepare's is "<packageName> v<version> - In Progress".
C11_FallbackText ==
    \A i \in 1..Len(sent) :
        VersionKnown =>
            FallbackOf(sent[i]) =
                PackageName \o " v" \o ctx.nextRelease.version \o " - "
                \o StatusLabel(sent[i].msg.status)

\* C12: release-artifact links are rendered only in the success message: the
\* pending and the failure message hold no artifact link, whatever
\* context.releases holds.
C12_ArtifactLinksOnlyInSuccess ==
    \A k \in 1..Len(built) :
        built[k].status # "success" => ArtifactLinks(built[k]) = <<>>

C12_Witness ==
    /\ built # <<>>
    /\ built[1].status \in {"pending", "failure"}
    /\ ReversedFiltered(ctx.releases) # <<>>
    /\ ctx.nextRelease.version # UNDEF

\* The entries recorded through the orchestrator's logger.
LoggerEntries == SelectSeq(log, LAMBDA e : e.via \in {"logger.log", "logger.error"})

\* The message build of the call threw: the commit message could not be
\* read, or part_002 destructured an absent nextRelease.
BuildThrew ==
    \/ impl # "js" /\ ctx.commit = GitFails
    \/ impl = "p2" /\ ~ctx.nextRelease.present

\* C13: a success or fail call made while no session is ready (no client or
\* no message handle, as when fail is called without a prepare before it)
\* records exactly one log entry and issues no chat-service request.  The
\* calls whose message build throws are left aside.
C13_SkipLogsOnceAndSendsNothing ==
    (Resolving /\ ~BuildThrew /\ (slackClient = UNDEF \/ messageTs = UNDEF)) =>
        Len(LoggerEntries) = 1 /\ sent = <<>>

\* C14: when pluginConfig supplies channelId, every request of prepare,
\* success and fail goes to that channel, not to the environment's one.
\* Stated for the processes whose environment holds a token and a channel.
C14_PluginChannelOverrides ==
    (pluginConfig.channelId # UNDEF /\ ~ConfigMissing([env |-> env])) =>
        \A i \in 1..Len(sent) : sent[i].channel = pluginConfig.channelId

\* C15: no retries.  A call of prepare, success or fail issues at most one
\* chat-service request, and none after a request that failed; in a run
\* whose post failed no message is created and success and fail post nothing.
C15_NoRetries ==
    /\ Len(sent) <= 1
    /\ \A i \in 1..Len(sent) : sent[i].outcome = "reject" => i = Len(sent)
    /\ prep = "failed" =>
           /\ \A i \in 1..Len(messages) : messages[i].run # run
           /\ Resolving => PostsSent = {}

C15_Witness ==
    /\ Resolving /\ prep = "failed"
    /\ Len(sent) = 1 /\ sent[1].outcome = "reject"

\* C16: a headline whose template interpolates the version shows
\* "v<version>" when the context holds a version, and no version text when
\* nextRelease is absent or has no version.
C16_HeadlineVersion ==
    \A k \in 1..Len(built) :
        Len(built[k].headline) = 3 =>
            built[k].headline[2] =
                IF VersionKnown THEN "v" \o ctx.nextRelease.version ELSE ""

\* C17: the commit/pull-request line is rendered only when the commit
\* message ends with "(#<digits>)"; otherwise the message holds no such line,
\* hence no link whose target ends in "null".
C17_PrLineOnlyWithPrNumber ==
    \A k \in 1..Len(built) :
        built[k].pr # <<>> => extractPrNumber(ctx.commit) # "null"

\* Some configured plugin is the pair ['@semantic-release/exec', cfg] whose
\* cfg.publishCmd is a string containing 'publish-to-s3.js'.
ExecPublishesToS3 ==
    /\ options.plugins.present
    /\ \E i \in 1..Len(options.plugins.list) :
         LET plugin == options.plugins.list[i]
         IN /\ plugin.isArray /\ plugin.length = 2
            /\ plugin.pluginName = "@semantic-release/exec"
            /\ plugin.publishCmd.type = "string"
            /\ \E j \in 1..Len(plugin.publishCmd.parts) :
                   plugin.publishCmd.parts[j] = "publish-to-s3.js"

ExpectedTypes ==
    IF pluginConfig.releaseTypes.set THEN pluginConfig.releaseTypes.types
    ELSE IF ExecPublishesToS3 THEN <<"npm", "s3">>
    ELSE <<"npm">>

TypesLine(types) ==
    CASE types = <<>> -> ""
      [] types = <<"npm">> -> "NPM"
      [] types = <<"s3">> -> "S3"
      [] types = <<"npm", "s3">> -> "NPM & S3"

WorkflowTexts == {"Workflow Run", "workflow", "View workflow"}

\* C19: a message holds the "view workflow" link only when the environment
\* holds all three CI identifiers (server URL, repository, run id).
C19_WorkflowLinkNeedsAllIds ==
    \A k \in 1..Len(built) :
        (\E j \in 1..Len(built[k].links) : built[k].links[j].text \in WorkflowTexts)
            => CiVars \subseteq ctx.env.ci

\* C20: building the success message leaves context.releases as the
\* orchestrator supplied it: the same elements in the same order.
C20_BuildLeavesReleases ==
    \A k \in 1..Len(built) :
        built[k].status = "success" => releasesOut = ctx.releases

\* C21: a prepare call that aborts - the token or the channel identifier is
\* missing, or the post fails - leaves the client, the channel id and the
\* message handle as they were before the call.
C21_AbortedPrepareKeepsSession ==
    [][(hook' = "prepare" /\ phase = "start" /\ prep' \in {"skipped", "failed"})
           => session' = session]_vars

\* C22: when the hooks of two release runs interleave in one process (prepare
\* of the first, prepare of the second, then success or fail of the first),
\* the update issued for a run whose own prepare posted goes to the channel
\* and the handle of that run's message, not to the message of the other run.
C22_InterleavedUpdateTargetsOwnPost ==
    (Resolving /\ prep = "ok" /\ others # <<>>)
        => \A i \in UpdatesSent : /\ sent[i].channel = posted.channel
                                  /\ sent[i].ts = posted.ts

====
